---- MODULE Spec2Model ----
(***************************************************************************)
(* The flat-file filesystem engine of src/src/lib.rs (mod myfs) over the   *)
(* disk image written by src/src/create_fs.rs.                             *)
(*                                                                         *)
(* The image is modelled by region.  Offsets are those the code computes:  *)
(*   [0, 128)                    the free block list, one byte per flag    *)
(*   [128 + 48*i, 128 + 48*i+48) inode record i, i in 0..15 (repr(C): 48   *)
(*                               bytes: name 8, size 1, 3 padding, 8       *)
(*                               little-endian u32 pointers, used 1, 3     *)
(*                               padding)                                  *)
(*   [128 + 1024*b, +1024)       the region read and write address for a   *)
(*                               block pointer b                           *)
(* A 1024-byte payload is modelled by its fill byte v (the buffer [v;1024] *)
(* of the tests and of the command driver).  The regions of two different  *)
(* pointers never overlap, and only the region of pointer 0 overlaps the   *)
(* inode table, which it covers whole: [128, 1152) contains [128, 896).    *)
(* Padding bytes of an inode record are interpreted by no operation and    *)
(* are left out of the record.                                             *)
(***************************************************************************)
EXTENDS Integers, Naturals, Sequences, FiniteSets, TLC

\* ------------------------------------------------------------ constants
BLOCK_SIZE == 1024
FREE_BLOCK_SIZE == 128
MAX_INODES == 16
IDXNODE_SIZE == 48
MAX_FILE_BLOCKS == 8
U32_FILL == 16843009
FORMAT_WRITES == 128

\* ------------------------------------------------------------ bounds
\* calls explored after the fill prefix by Spec, by SpecCD and by SpecRW
MaxOps == 3
MaxOpsCD == 7
MaxOpsRW == 5
MaxOpsST == 6
MaxOpsSC == 5
MaxOpsWI == 3
MaxOpsIN == 3
MaxOpsBZ == 5

\* ------------------------------------------------------------ inputs
ZeroName == <<0, 0, 0, 0, 0, 0, 0, 0>>
file1 == <<102, 105, 108, 101, 49, 0, 0, 0>>
file2 == <<102, 105, 108, 101, 50, 0, 0, 0>>
file3 == <<102, 105, 108, 101, 51, 0, 0, 0>>
testfile == <<116, 101, 115, 116, 102, 105, 108, 101>>
\* "abcdefg" and the first byte of a two-byte character: what the command
\* driver's get_filename_array keeps of a longer name; not valid UTF-8.
cutname == <<97, 98, 99, 100, 101, 102, 103, 195>>
Names == {ZeroName, file1, cutname}
Sizes == {0, 1, 7, 9}
BlockNums == {0, 1, 8}
Fills == {0, 1, 49}

Slots == 0 .. (MAX_INODES - 1)
Flags == 0 .. (FREE_BLOCK_SIZE - 1)
PtrIdx == 0 .. (MAX_FILE_BLOCKS - 1)

\* ------------------------------------------------------------ results
\* The Err strings of lib.rs, without their formatted numbers.
OkRes == "Ok"
InvalidSize == "Max blocks per file is 8"
InsufficientSpace == "Not enough free blocks"
NoInode == "Could not find inode meeting condition"
OutOfRange == "block_num exceeds capacity of inode.size"
Panic == "panic"

\* ------------------------------------------------------------ state
VARIABLES
  fbl,      \* bytes [0, 128) of the image: the free block list
  inodes,   \* bytes [128, 896) of the image, decoded: the 16 inode records
  blocks,   \* fill byte of every 1024-byte region written non-zero, by pointer
  len,      \* length of the image file in bytes
  pos,      \* cursor of the engine's file handle
  last,     \* the last call: operation, arguments, result
  ops,      \* calls still allowed after the fill prefix
  eng       \* two engine instances on the same store, a call in steps: for
            \* each its position in the call, its cursor and its local copies

vars == <<fbl, inodes, blocks, len, pos, last, ops, eng>>

\* A write buffer that is not one byte repeated: the 48 bytes of an inode
\* record (name file1, size 1, every block pointer 0, used 1, padding 0)
\* repeated over the 1024 bytes.  RecordFill, no byte value, names this
\* buffer wherever a fill byte names a buffer of equal bytes.
RecordFill == 256
RecordInode ==
  [name |-> file1, size |-> 1, block_pointers |-> [k \in PtrIdx |-> 0],
   used |-> 1]

\* An inode record as transmuted from 48 bytes of the buffer v names: the
\* record repeated in the buffer RecordFill, else 48 bytes that all equal v.
FillInode(v) ==
  IF v = RecordFill THEN RecordInode
  ELSE [name |-> [k \in 1 .. 8 |-> v], size |-> v,
        block_pointers |-> [k \in PtrIdx |-> v * U32_FILL], used |-> v]

\* create_fs: 128 writes of 1024 bytes, all zero except byte 0 = 1.
FormatLen == FORMAT_WRITES * BLOCK_SIZE
FormatFbl == [i \in Flags |-> IF i = 0 THEN 1 ELSE 0]
FormatInodes == [i \in Slots |-> FillInode(0)]

\* Offset of the region addressed by block pointer b (read, write).
BlockOffset(b) == FREE_BLOCK_SIZE + BLOCK_SIZE * b
\* Offset of inode record i (get_inode).
InodeOffset(i) == FREE_BLOCK_SIZE + IDXNODE_SIZE * i


\* ------------------------------------------------------------ helpers
Min(S) == CHOOSE x \in S : \A y \in S : x <= y

\* get_free_block_list's fold in create_file: the number of flags equal to 0.
AvailableBlocks(f) == Cardinality({i \in Flags : f[i] = 0})

\* get_first_inode_conditional_on: slots 0..15 ascending, the first inode that
\* satisfies the closure; f[i] is the closure's value on the record of slot
\* i.  The cursor ends after the record read last.
get_first_inode_conditional_on(f) ==
  LET hits == {i \in Slots : f[i]}
  IN  IF hits = {}
      THEN [found |-> FALSE, index |-> MAX_INODES, pos |-> InodeOffset(MAX_INODES)]
      ELSE [found |-> TRUE, index |-> Min(hits), pos |-> InodeOffset(Min(hits) + 1)]

\* A write of the record at the cursor itself, without the seek back.
write_inode_no_seek(ino, inode, p) ==
  LET slot == (p - FREE_BLOCK_SIZE) \div IDXNODE_SIZE
  IN  IF p >= FREE_BLOCK_SIZE /\ (p - FREE_BLOCK_SIZE) % IDXNODE_SIZE = 0
         /\ slot \in Slots
      THEN [ino EXCEPT ![slot] = inode]
      ELSE ino

\* write_inode: seek Current(-48), write the 48-byte record there.
write_inode(ino, inode, p) ==
  LET at == p - IDXNODE_SIZE
      slot == (at - FREE_BLOCK_SIZE) \div IDXNODE_SIZE
  IN  IF at >= FREE_BLOCK_SIZE /\ (at - FREE_BLOCK_SIZE) % IDXNODE_SIZE = 0
         /\ slot \in Slots
      THEN [ino EXCEPT ![slot] = inode]
      ELSE ino

\* A scan that takes the highest free index at or after i instead of the
\* first one.
NextFreeHighest(f, i) ==
  IF \E j \in i .. (FREE_BLOCK_SIZE - 1) : f[j] = 0
  THEN CHOOSE j \in i .. (FREE_BLOCK_SIZE - 1) :
         f[j] = 0 /\ \A y \in (j + 1) .. (FREE_BLOCK_SIZE - 1) : f[y] # 0
  ELSE FREE_BLOCK_SIZE

\* The allocation loop of create_file (lib.rs 97-106).  An iteration whose
\* flag is not 0 only advances i, so the loop is taken from one free index
\* to the next: NextFree is the first i' >= i with flag 0, or 128 when the
\* loop runs off the end of the list.
NextFree(f, i) ==
  IF \E j \in i .. (FREE_BLOCK_SIZE - 1) : f[j] = 0
  THEN CHOOSE j \in i .. (FREE_BLOCK_SIZE - 1) :
         f[j] = 0 /\ \A y \in i .. (j - 1) : f[y] # 0
  ELSE FREE_BLOCK_SIZE

RECURSIVE AllocLoop(_, _, _, _, _)
AllocLoop(i, blocks_allocated, f, ptrs, size) ==
  IF i < FREE_BLOCK_SIZE /\ blocks_allocated < size
  THEN LET j == NextFree(f, i)
       IN  IF j < FREE_BLOCK_SIZE
           THEN AllocLoop(j + 1, blocks_allocated + 1, [f EXCEPT ![j] = 1],
                          [ptrs EXCEPT ![blocks_allocated] = j], size)
           ELSE AllocLoop(j, blocks_allocated, f, ptrs, size)
  ELSE [fbl |-> f, block_pointers |-> ptrs, blocks_allocated |-> blocks_allocated]

\* The loop of delete_file (lib.rs 134-136); both index expressions are
\* bounds-checked and panic when out of range.
RECURSIVE FreeLoop(_, _, _)
FreeLoop(i, f, inode) ==
  IF i < inode.size
  THEN IF i >= MAX_FILE_BLOCKS \/ inode.block_pointers[i] >= FREE_BLOCK_SIZE
       THEN [panic |-> TRUE, fbl |-> f]
       ELSE FreeLoop(i + 1, [f EXCEPT ![inode.block_pointers[i]] = 0], inode)
  ELSE [panic |-> FALSE, fbl |-> f]

\* Content of the 1024-byte region of pointer b; bytes never written, and
\* bytes past the end of the file (a short read into a zeroed buffer), are 0.
ReadBlock(blk, b) == IF b \in DOMAIN blk THEN blk[b] ELSE 0

StoreBlock(blk, b, v) ==
  IF v = 0
  THEN [x \in (DOMAIN blk) \ {b} |-> blk[x]]
  ELSE [x \in (DOMAIN blk) \cup {b} |-> IF x = b THEN v ELSE blk[x]]

\* A 1024-byte buffer: all bytes fill, or (read through pointer 0) the inode
\* table followed by 256 bytes fill.
Payload(v) == [fill |-> v, table |-> <<>>]

\* The buffer read through pointer 0: bytes [128, 1152).  When every record
\* of the table is the one 48 bytes v make, the buffer is [v; 1024].
TableBuf(ino, v) ==
  IF ino = [i \in Slots |-> FillInode(v)] THEN Payload(v)
  ELSE [fill |-> v, table |-> ino]

\* from_utf8 on an 8-byte name: of the names the model holds (ASCII names,
\* cutname, and names of eight equal bytes) exactly those with all bytes
\* below 128 decode.
Utf8Ok(name) == \A k \in 1 .. 8 : name[k] < 128

\* ------------------------------------------------------------ operations
\* Each operation maps the image (f: free block list, ino: inode table,
\* blk: block regions, ln: file length, p: cursor) and its arguments to its
\* result and the image it leaves.  A panic ends the process before it
\* wrote anything; the next engine opens the file with the cursor at 0.

\* The checks in the order of the legacy engine (myfs.rs 73-80): free blocks
\* first, size second.
CreateGuardSpaceFirst(f, size) ==
  IF AvailableBlocks(f) < size THEN InsufficientSpace
  ELSE IF size > MAX_FILE_BLOCKS THEN InvalidSize
  ELSE OkRes

\* The size check alone.
CreateGuardSizeOnly(f, size) ==
  IF size > MAX_FILE_BLOCKS THEN InvalidSize ELSE OkRes

\* The checks of create_file before it looks for an inode (lib.rs 74-88).
CreateGuard(f, size) ==
  IF size > MAX_FILE_BLOCKS THEN InvalidSize
  ELSE IF AvailableBlocks(f) < size THEN InsufficientSpace
  ELSE OkRes

\* The fields create_file sets on the inode it found (lib.rs 92-94).
NewInode(inode, filename, size) ==
  [inode EXCEPT !.used = 1, !.name = filename, !.size = size]

create_file(f, ino, p, filename, size) ==
  LET g == CreateGuard(f, size)
  IN  IF g = InvalidSize
      THEN [res |-> g, fbl |-> f, inodes |-> ino, pos |-> p]
      ELSE IF g = InsufficientSpace
      THEN [res |-> g, fbl |-> f, inodes |-> ino, pos |-> FREE_BLOCK_SIZE]
      ELSE LET r == get_first_inode_conditional_on([i \in Slots |-> ino[i].used = 0])
           IN  IF ~r.found
               THEN [res |-> NoInode, fbl |-> f, inodes |-> ino, pos |-> r.pos]
               ELSE LET inode == NewInode(ino[r.index], filename, size)
                        a == AllocLoop(0, 0, f, inode.block_pointers, size)
                        written == [inode EXCEPT
                                      !.block_pointers = a.block_pointers]
                    IN  [res |-> OkRes, fbl |-> a.fbl,
                         inodes |-> write_inode(ino, written, r.pos),
                         pos |-> FREE_BLOCK_SIZE]

\* The record as found, its flag kept.
UnusedKeepFlag(inode) == inode

\* delete_file marks the inode it found unused (lib.rs 137).

Unused(inode) == [inode EXCEPT !.used = 0]

delete_file(f, ino, p, filename) ==
  LET r == get_first_inode_conditional_on([i \in Slots |-> ino[i].name = filename])
  IN  IF ~r.found
      THEN [res |-> NoInode, fbl |-> f, inodes |-> ino, pos |-> r.pos]
      ELSE LET fl == FreeLoop(0, f, ino[r.index])
               inode == Unused(ino[r.index])
           IN  IF fl.panic
               THEN [res |-> Panic, fbl |-> f, inodes |-> ino, pos |-> 0]
               ELSE [res |-> OkRes, fbl |-> fl.fbl,
                     inodes |-> write_inode(ino, inode, r.pos),
                     pos |-> FREE_BLOCK_SIZE]

RECURSIVE LsLoop(_, _, _)
LsLoop(i, ino, out) ==
  IF i < MAX_INODES
  THEN IF ino[i].used = 1
       THEN IF Utf8Ok(ino[i].name)
            THEN LsLoop(i + 1, ino, Append(out, ino[i].name))
            ELSE [res |-> Panic, listing |-> out, pos |-> 0]
       ELSE LsLoop(i + 1, ino, out)
  ELSE [res |-> OkRes, listing |-> out, pos |-> InodeOffset(MAX_INODES)]

ls(ino) == LsLoop(0, ino, <<>>)

read(ino, blk, ln, filename, block_num) ==
  LET r == get_first_inode_conditional_on([i \in Slots |-> ino[i].name = filename])
  IN  IF ~r.found
      THEN [res |-> NoInode, buf |-> Payload(0), pos |-> r.pos]
      ELSE IF ino[r.index].size <= block_num
      THEN [res |-> OutOfRange, buf |-> Payload(0), pos |-> r.pos]
      ELSE IF block_num >= MAX_FILE_BLOCKS
      THEN [res |-> Panic, buf |-> Payload(0), pos |-> 0]
      ELSE LET block == ino[r.index].block_pointers[block_num]
               off == BlockOffset(block)
               n == IF ln <= off THEN 0
                    ELSE IF ln - off < BLOCK_SIZE THEN ln - off ELSE BLOCK_SIZE
           IN  [res |-> OkRes,
                buf |-> IF block = 0
                        THEN TableBuf(ino, ReadBlock(blk, 0))
                        ELSE Payload(ReadBlock(blk, block)),
                pos |-> off + n]

write(ino, blk, ln, filename, block_num, v) ==
  LET r == get_first_inode_conditional_on([i \in Slots |-> ino[i].name = filename])
  IN  IF ~r.found
      THEN [res |-> NoInode, inodes |-> ino, blocks |-> blk, len |-> ln,
            pos |-> r.pos]
      ELSE IF block_num >= MAX_FILE_BLOCKS
      THEN [res |-> Panic, inodes |-> ino, blocks |-> blk, len |-> ln, pos |-> 0]
      ELSE LET block == ino[r.index].block_pointers[block_num]
               off == BlockOffset(block)
           IN  [res |-> OkRes,
                inodes |-> IF block = 0 THEN [i \in Slots |-> FillInode(v)]
                           ELSE ino,
                blocks |-> StoreBlock(blk, block, v),
                len |-> IF ln < off + BLOCK_SIZE THEN off + BLOCK_SIZE ELSE ln,
                pos |-> off + BLOCK_SIZE]

\* ------------------------------------------------------------ actions
\* An action binds the outcome of its operation once (\E x \in {outcome}) and
\* assigns every part of it.
\* The inodes a lookup by name is specified to consider: used, named name.
LiveSlots(ino, name) == {i \in Slots : ino[i].used = 1 /\ ino[i].name = name}
\* The size of the lowest of them, or -1 when there is none.
LiveSize(ino, name) ==
  IF LiveSlots(ino, name) = {} THEN -1 ELSE ino[Min(LiveSlots(ino, name))].size

\* The record of a call: its arguments, its result, and lsize, the size the
\* file named filename had when the call was made (LiveSize).
Call(op, filename, n, v, res, buf, listing) ==
  [op |-> op, filename |-> filename, n |-> n, fill |-> v, res |-> res,
   buf |-> buf, listing |-> listing, lsize |-> LiveSize(inodes, filename)]

\* The two engine instances (two MyFileSystem::new on the same file), and an
\* engine outside a call: cursor at 0, nothing loaded.
Engines == {1, 2}

IdleEngine ==
  [pc |-> "idle", op |-> "none", filename |-> ZeroName, size |-> 0,
   free_block_list |-> [i \in Flags |-> 0], i |-> 0, inode |-> FillInode(0),
   pos |-> 0, res |-> "none", overlapped |-> FALSE]

Fresh(budget) ==
  /\ fbl = FormatFbl
  /\ inodes = FormatInodes
  /\ blocks = <<>>
  /\ len = FormatLen
  /\ pos = 0
  /\ last = Call("new", ZeroName, 0, 0, OkRes, Payload(0), <<>>)
  /\ ops = budget
  /\ eng = [e \in Engines |-> IdleEngine]

NumUsed == Cardinality({i \in Slots : inodes[i].used = 1})

\* The fill prefix: before any explored call, files named testfile are
\* created one after the other, all of 8 blocks or all of 0 blocks.  The
\* explored calls start on the fresh image or once 15 slots are filled.
InPrefix == last.op = "new" \/ (last.op = "create" /\ last.filename = testfile)

Prefix(filename, size) ==
  /\ InPrefix
  /\ filename = testfile
  /\ size \in {0, MAX_FILE_BLOCKS}
  /\ \A i \in Slots : inodes[i].used = 1 => inodes[i].size = size

Explored ==
  /\ ops > 0
  /\ InPrefix => (NumUsed = 0 \/ NumUsed >= MAX_INODES - 1)

CreateFile(N, S) ==
  \E filename \in N, size \in S :
    /\ Explored
    /\ \E c \in {create_file(fbl, inodes, pos, filename, size)} :
         /\ fbl' = c.fbl
         /\ inodes' = c.inodes
         /\ pos' = c.pos
         /\ last' = Call("create", filename, size, 0, c.res, Payload(0), <<>>)
    /\ ops' = ops - 1
    /\ UNCHANGED <<blocks, len, eng>>

FillPrefix ==
  \E size \in {0, MAX_FILE_BLOCKS} :
    /\ Prefix(testfile, size)
    /\ \E c \in {create_file(fbl, inodes, pos, testfile, size)} :
         /\ fbl' = c.fbl
         /\ inodes' = c.inodes
         /\ pos' = c.pos
         /\ last' = Call("create", testfile, size, 0, c.res, Payload(0), <<>>)
    /\ UNCHANGED <<blocks, len, ops, eng>>

DeleteFile(N) ==
  \E filename \in N :
    /\ Explored
    /\ \E d \in {delete_file(fbl, inodes, pos, filename)} :
         /\ fbl' = d.fbl
         /\ inodes' = d.inodes
         /\ pos' = d.pos
         /\ last' = Call("delete", filename, 0, 0, d.res, Payload(0), <<>>)
    /\ ops' = ops - 1
    /\ UNCHANGED <<blocks, len, eng>>

Ls ==
  /\ Explored
  /\ \E l \in {ls(inodes)} :
       /\ pos' = l.pos
       /\ last' = Call("ls", ZeroName, 0, 0, l.res, Payload(0), l.listing)
  /\ ops' = ops - 1
  /\ UNCHANGED <<fbl, inodes, blocks, len, eng>>

Read(N, B) ==
  \E filename \in N, block_num \in B :
    /\ Explored
    /\ \E r \in {read(inodes, blocks, len, filename, block_num)} :
         /\ pos' = r.pos
         /\ last' = Call("read", filename, block_num, 0, r.res, r.buf, <<>>)
    /\ ops' = ops - 1
    /\ UNCHANGED <<fbl, inodes, blocks, len, eng>>

Write(N, B, V) ==
  \E filename \in N, block_num \in B, v \in V :
    /\ Explored
    /\ \E w \in {write(inodes, blocks, len, filename, block_num, v)} :
         /\ inodes' = w.inodes
         /\ blocks' = w.blocks
         /\ len' = w.len
         /\ pos' = w.pos
         /\ last' = Call("write", filename, block_num, v, w.res, Payload(0), <<>>)
    /\ ops' = ops - 1
    /\ UNCHANGED <<fbl, eng>>

\* Every operation, from the fresh image and from the filled images.
LookupNames == Names \cup {testfile}

Init == Fresh(MaxOps)

Next ==
  \/ FillPrefix
  \/ CreateFile(Names, Sizes)
  \/ DeleteFile(LookupNames)
  \/ Ls
  \/ Read(LookupNames, BlockNums)
  \/ Write(LookupNames, BlockNums, Fills)

Spec == Init /\ [][Next]_vars

\* create_file and delete_file alone, from the fresh image.
NamesCD == {file1, file2}
SizesCD == {0, 1}

InitCD == Fresh(MaxOpsCD)

NextCD == CreateFile(NamesCD, SizesCD) \/ DeleteFile(NamesCD)

SpecCD == InitCD /\ [][NextCD]_vars

\* One name, created twice with different sizes, then read and written.
NamesRW == {file1}
SizesRW == {1, 7}
BlockNumsRW == {1}
FillsRW == {49}

InitRW == Fresh(MaxOpsRW)

NextRW ==
  \/ CreateFile(NamesRW, SizesRW)
  \/ DeleteFile(NamesRW)
  \/ Read(NamesRW, BlockNumsRW)
  \/ Write(NamesRW, BlockNumsRW, FillsRW)

SpecRW == InitRW /\ [][NextRW]_vars

\* Two names created and deleted, then a write to one of them.
NamesST == {file1, file2}
SizesST == {0, 1}
WriteNamesST == {file2}
BlockNumsST == {0}
FillsST == {49}

InitST == Fresh(MaxOpsST)

NextST ==
  \/ CreateFile(NamesST, SizesST)
  \/ DeleteFile(NamesST)
  \/ Write(WriteNamesST, BlockNumsST, FillsST)

SpecST == InitST /\ [][NextST]_vars

\* Three names with files of 4 and 8 blocks: create_file, delete_file, ls.
NamesSC == {file1, file2, file3}
SizesSC == {4, MAX_FILE_BLOCKS}

InitSC == Fresh(MaxOpsSC)

NextSC ==
  \/ CreateFile(NamesSC, SizesSC)
  \/ DeleteFile(NamesSC)
  \/ Ls

SpecSC == InitSC /\ [][NextSC]_vars

\* ------------------------------------------------- two engine instances
\* create_file and delete_file in the steps of their code: every load and
\* every store of the free block list or of an inode record is a step of its
\* own, and each engine has its own file handle, so its own cursor.
SizesCC == {1, 2}

CallsCC(e) ==
  {[op |-> "create", filename |-> IF e = 1 THEN file1 ELSE file2, size |-> n] :
     n \in SizesCC}
  \cup {[op |-> "delete", filename |-> testfile, size |-> 0]}

InCall(e) == eng[e].pc \notin {"idle", "done"}

\* Entry of the call; create_file checks size before it touches the store
\* (lib.rs 74-79).  overlapped records that the other engine is inside a
\* call at this moment.
StartCall(e) ==
  /\ eng[e].pc = "idle"
  /\ \E c \in CallsCC(e) :
       eng' = [eng EXCEPT ![e] =
                 [IdleEngine EXCEPT
                    !.op = c.op, !.filename = c.filename, !.size = c.size,
                    !.overlapped = \E o \in Engines \ {e} : InCall(o),
                    !.pc = IF c.op = "create" /\ c.size > MAX_FILE_BLOCKS
                           THEN "done" ELSE "get_free_block_list",
                    !.res = IF c.op = "create" /\ c.size > MAX_FILE_BLOCKS
                            THEN InvalidSize ELSE "none"]]
  /\ UNCHANGED <<fbl, inodes, blocks, len, pos, last, ops>>

\* write_free_block_list: the 128 bytes stored at offset 0.
write_free_block_list(f, free_block_list) == free_block_list

\* get_free_block_list (lib.rs 81 and 132), then create_file's count of the
\* free flags (82-88).
GetFreeBlockList(e) ==
  /\ eng[e].pc = "get_free_block_list"
  /\ eng' = IF eng[e].op = "create" /\ AvailableBlocks(fbl) < eng[e].size
            THEN [eng EXCEPT ![e].pc = "done", ![e].res = InsufficientSpace,
                             ![e].free_block_list = fbl,
                             ![e].pos = FREE_BLOCK_SIZE]
            ELSE [eng EXCEPT ![e].pc = "get_inode", ![e].i = 0,
                             ![e].free_block_list = fbl,
                             ![e].pos = FREE_BLOCK_SIZE]
  /\ UNCHANGED <<fbl, inodes, blocks, len, pos, last, ops>>

\* One iteration of get_first_inode_conditional_on: get_inode(i) and the
\* closure on the record read; on a match the caller goes on, in memory, up
\* to its write_inode (lib.rs 92-106 and 134-137).
GetInode(e) ==
  /\ eng[e].pc = "get_inode"
  /\ LET i == eng[e].i
         record == inodes[i]
         after == InodeOffset(i + 1)
         hit == IF eng[e].op = "create" THEN record.used = 0
                ELSE record.name = eng[e].filename
         inode == NewInode(record, eng[e].filename, eng[e].size)
         a == AllocLoop(0, 0, eng[e].free_block_list, inode.block_pointers,
                        eng[e].size)
         fl == FreeLoop(0, eng[e].free_block_list, record)
     IN  eng' =
           IF ~hit
           THEN IF i + 1 < MAX_INODES
                THEN [eng EXCEPT ![e].i = i + 1, ![e].pos = after]
                ELSE [eng EXCEPT ![e].pc = "done", ![e].res = NoInode,
                                 ![e].pos = after]
           ELSE IF eng[e].op = "create"
           THEN [eng EXCEPT ![e].pc = "write_inode", ![e].pos = after,
                            ![e].inode = [inode EXCEPT !.block_pointers =
                                                         a.block_pointers],
                            ![e].free_block_list = a.fbl]
           ELSE IF fl.panic
           THEN [eng EXCEPT ![e].pc = "done", ![e].res = Panic, ![e].pos = 0]
           ELSE [eng EXCEPT ![e].pc = "write_inode", ![e].pos = after,
                            ![e].inode = Unused(record),
                            ![e].free_block_list = fl.fbl]
  /\ UNCHANGED <<fbl, inodes, blocks, len, pos, last, ops>>

\* write_inode (lib.rs 108 and 138), relative to this engine's cursor.
WriteInode(e) ==
  /\ eng[e].pc = "write_inode"
  /\ inodes' = write_inode(inodes, eng[e].inode, eng[e].pos)
  /\ eng' = [eng EXCEPT ![e].pc = "write_free_block_list"]
  /\ UNCHANGED <<fbl, blocks, len, pos, last, ops>>

\* write_free_block_list (lib.rs 109 and 139), then Ok.
WriteFreeBlockList(e) ==
  /\ eng[e].pc = "write_free_block_list"
  /\ fbl' = write_free_block_list(fbl, eng[e].free_block_list)
  /\ eng' = [eng EXCEPT ![e].pc = "done", ![e].res = OkRes,
                        ![e].pos = FREE_BLOCK_SIZE]
  /\ UNCHANGED <<inodes, blocks, len, pos, last, ops>>

\* The stores the two calls start on, each as a sequence of calls leaves
\* it: the fresh image; the fresh image after create(testfile, 1); and the
\* image after create(file3, 0), create(testfile, 1), delete(file3),
\* delete(testfile), create(file3, 1).
FormatStore == [fbl |-> FormatFbl, inodes |-> FormatInodes, pos |-> 0]

Created(st, filename, size) ==
  create_file(st.fbl, st.inodes, st.pos, filename, size)

Deleted(st, filename) == delete_file(st.fbl, st.inodes, st.pos, filename)

StoresCC ==
  LET one == Created(FormatStore, testfile, 1)
      two == Created(Created(FormatStore, file3, 0), testfile, 1)
      gone == Deleted(Deleted(two, file3), testfile)
  IN  {FormatStore, one, Created(gone, file3, 1)}

InitCC ==
  \E st \in StoresCC :
    /\ fbl = st.fbl
    /\ inodes = st.inodes
    /\ blocks = <<>>
    /\ len = FormatLen
    /\ pos = 0
    /\ last = Call("new", ZeroName, 0, 0, OkRes, Payload(0), <<>>)
    /\ ops = 0
    /\ eng = [e \in Engines |-> IdleEngine]

NextCC ==
  \E e \in Engines :
    \/ StartCall(e)
    \/ GetFreeBlockList(e)
    \/ GetInode(e)
    \/ WriteInode(e)
    \/ WriteFreeBlockList(e)

SpecCC == InitCC /\ [][NextCC]_vars

\* Creates and deletes on every fill level of the inode table: the store
\* after k creates of file2 with no blocks, k = 0..16, so that the next
\* unused slot is any of 0..15 (or none).
NamesWI == {file1, file2}
SizesWI == {0, 1}

RECURSIVE Filled(_)
Filled(k) ==
  IF k = 0 THEN FormatStore ELSE Created(Filled(k - 1), file2, 0)

InitWI ==
  \E k \in 0 .. MAX_INODES :
    /\ fbl = Filled(k).fbl
    /\ inodes = Filled(k).inodes
    /\ blocks = <<>>
    /\ len = FormatLen
    /\ pos = Filled(k).pos
    /\ last = IF k = 0
              THEN Call("new", ZeroName, 0, 0, OkRes, Payload(0), <<>>)
              ELSE [Call("create", file2, 0, 0, OkRes, Payload(0), <<>>)
                      EXCEPT !.lsize = IF k = 1 THEN -1 ELSE 0]
    /\ ops = MaxOpsWI
    /\ eng = [e \in Engines |-> IdleEngine]

NextWI == CreateFile(NamesWI, SizesWI) \/ DeleteFile(NamesWI)

SpecWI == InitWI /\ [][NextWI]_vars

\* One engine, its calls in the steps of their code, one call after the
\* other: every state between two stores of a call is a state the image is
\* left in when the process stops there.  The calls start on the fresh
\* image, on the image with all 16 slots used by empty files, and on the
\* image with 15 files of 8 blocks, where 7 blocks are free.
NamesIN == {file1, file2}
SizesIN == {1, MAX_FILE_BLOCKS, MAX_FILE_BLOCKS + 1}

CallsIN ==
  {[op |-> "create", filename |-> file1, size |-> n] : n \in SizesIN}
  \cup {[op |-> "delete", filename |-> f, size |-> 0] : f \in NamesIN}

RECURSIVE FilledWith(_, _, _)
FilledWith(k, filename, size) ==
  IF k = 0 THEN FormatStore
  ELSE Created(FilledWith(k - 1, filename, size), filename, size)

StoresIN ==
  {FormatStore, Filled(MAX_INODES),
   FilledWith(MAX_INODES - 1, testfile, MAX_FILE_BLOCKS)}

StartCallIN ==
  /\ eng[1].pc = "idle"
  /\ ops > 0
  /\ \E c \in CallsIN :
       eng' = [eng EXCEPT ![1] =
                 [IdleEngine EXCEPT
                    !.op = c.op, !.filename = c.filename, !.size = c.size,
                    !.pc = IF c.op = "create" /\ c.size > MAX_FILE_BLOCKS
                           THEN "done" ELSE "get_free_block_list",
                    !.res = IF c.op = "create" /\ c.size > MAX_FILE_BLOCKS
                            THEN InvalidSize ELSE "none"]]
  /\ UNCHANGED <<fbl, inodes, blocks, len, pos, last, ops>>

\* The call returns; the engine is ready for the next one.
ReturnIN ==
  /\ eng[1].pc = "done"
  /\ eng' = [eng EXCEPT ![1] = IdleEngine]
  /\ ops' = ops - 1
  /\ UNCHANGED <<fbl, inodes, blocks, len, pos, last>>

InitIN ==
  \E st \in StoresIN :
    /\ fbl = st.fbl
    /\ inodes = st.inodes
    /\ blocks = <<>>
    /\ len = FormatLen
    /\ pos = 0
    /\ last = Call("new", ZeroName, 0, 0, OkRes, Payload(0), <<>>)
    /\ ops = MaxOpsIN
    /\ eng = [e \in Engines |-> IdleEngine]

NextIN ==
  \/ StartCallIN
  \/ GetFreeBlockList(1)
  \/ GetInode(1)
  \/ WriteInode(1)
  \/ WriteFreeBlockList(1)
  \/ ReturnIN

SpecIN == InitIN /\ [][NextIN]_vars

\* Every operation on two names, with a write buffer that holds inode
\* records.
NamesBZ == {file1, file2}
SizesBZ == {0, 1}
BlockNumsBZ == {0}
FillsBZ == {0, RecordFill}

InitBZ == Fresh(MaxOpsBZ)

NextBZ ==
  \/ CreateFile(NamesBZ, SizesBZ)
  \/ DeleteFile(NamesBZ)
  \/ Ls
  \/ Read(NamesBZ, BlockNumsBZ)
  \/ Write(NamesBZ, BlockNumsBZ, FillsBZ)

SpecBZ == InitBZ /\ [][NextBZ]_vars

\* ------------------------------------------------------------ properties
\* Block indices held by the used inodes in block_pointers[0..size].
Held(ino, i) ==
  {ino[i].block_pointers[k] : k \in {k \in PtrIdx : k < ino[i].size}}

Referenced(ino) == UNION {Held(ino, i) : i \in {i \in Slots : ino[i].used = 1}}

\* Number of flags of the free block list that are 0.
FreeFlags(f) == Cardinality({i \in Flags : f[i] = 0})

\* The persisted image is the same before and after the step.
ImageUnchanged ==
  /\ fbl' = fbl
  /\ inodes' = inodes
  /\ blocks' = blocks
  /\ len' = len

\* Number of times list() yields name.
Listed(ino, name) ==
  LET l == ls(ino).listing
  IN  Cardinality({k \in 1 .. Len(l) : l[k] = name})

\* The slot a lookup by name selects in the code: the first with that name.
FirstMatch(ino, name) == Min({i \in Slots : ino[i].name = name})

\* C1: for every block index but the reserved 0, the flag is 1 iff the index
\* is among block_pointers[0..size] of some used inode.
C1_AllocatedIffReferenced ==
  \A b \in 1 .. (FREE_BLOCK_SIZE - 1) : (fbl[b] = 1) <=> (b \in Referenced(inodes))

\* C2: no block index is held twice, by two used inodes or within one.
C2_NoSharedBlock ==
  LET used == {i \in Slots : inodes[i].used = 1}
  IN  /\ \A i \in used :
           \A k1, k2 \in {k \in PtrIdx : k < inodes[i].size} :
             k1 # k2 => inodes[i].block_pointers[k1] # inodes[i].block_pointers[k2]
      /\ \A i1, i2 \in used :
           i1 # i2 => Held(inodes, i1) \cap Held(inodes, i2) = {}

\* C3: create_file with size > 8 fails InvalidSize, whatever the free blocks
\* and the inode slots, and leaves the image unchanged.
C3_InvalidSize ==
  [][ (last'.op = "create" /\ last'.n > 8)
      => (last'.res = InvalidSize /\ ImageUnchanged) ]_vars

C3_Witness ==
  /\ last.op = "create" /\ last.n > 8 /\ last.res = InvalidSize
  /\ FreeFlags(fbl) < last.n
  /\ \A i \in Slots : inodes[i].used # 0

\* C4 as stated: create_file(name, s) with fewer than s free flags fails
\* InsufficientSpace and leaves the image unchanged.
C4_Original ==
  [][ (last'.op = "create" /\ FreeFlags(fbl) < last'.n)
      => (last'.res = InsufficientSpace /\ ImageUnchanged) ]_vars

\* C4 amended: create_file(name, s) with s <= 8 and fewer than s free flags
\* fails InsufficientSpace, also when no inode slot is unused, and leaves the
\* image unchanged.
C4_InsufficientSpace ==
  [][ (last'.op = "create" /\ last'.n <= 8 /\ FreeFlags(fbl) < last'.n)
      => (last'.res = InsufficientSpace /\ ImageUnchanged) ]_vars

C4_Witness ==
  /\ last.op = "create" /\ last.n <= 8 /\ last.res = InsufficientSpace
  /\ FreeFlags(fbl) < last.n
  /\ \A i \in Slots : inodes[i].used # 0

\* C5: create_file with a valid size and enough free blocks fails with the
\* no-inode error exactly when all 16 slots have used = 1, and then leaves
\* the image unchanged.
C5_NoFreeInodeIffAllUsed ==
  [][ (last'.op = "create" /\ last'.n <= 8 /\ FreeFlags(fbl) >= last'.n)
      => /\ (last'.res = NoInode) <=> (\A i \in Slots : inodes[i].used = 1)
         /\ (last'.res = NoInode) => ImageUnchanged ]_vars

\* C6: with 0 <= s <= 8 and at least s free blocks, create_file(name, s)
\* succeeds, list() then yields name exactly once, and the inode listed under
\* name has size s.  Stated for the calls where it can be expected: some slot
\* has used = 0 and no used inode carries name yet.
C6_CreateThenList ==
  [][ ( /\ last'.op = "create" /\ last'.n <= 8 /\ FreeFlags(fbl) >= last'.n
        /\ \E i \in Slots : inodes[i].used = 0
        /\ LiveSlots(inodes, last'.filename) = {} )
      => /\ last'.res = OkRes
         /\ Listed(inodes', last'.filename) = 1
         /\ LiveSize(inodes', last'.filename) = last'.n ]_vars

C8_LookupOnlyUsed ==
  [][ /\ ( /\ last'.op \in {"read", "write", "delete"}
            /\ LiveSlots(inodes, last'.filename) = {} )
          => (last'.res = NoInode /\ ImageUnchanged)
      /\ ( /\ last'.op = "delete" /\ last'.res = OkRes
            /\ LiveSlots(inodes, last'.filename) # {} )
          => inodes'[Min(LiveSlots(inodes, last'.filename))].used = 0 ]_vars

\* C9: for a live file and i < its size, write(name, i, payload) followed at
\* once by read(name, i) returns payload.
C9_WriteThenRead ==
  [][ ( /\ last.op = "write" /\ last.n < last.lsize
        /\ last'.op = "read" /\ last'.filename = last.filename
        /\ last'.n = last.n )
      => (last'.res = OkRes /\ last'.buf = Payload(last.fill)) ]_vars

\* C10: read(name, i) on a live file with i >= its size fails OutOfRange and
\* leaves the image unchanged.
C10_ReadOutOfRange ==
  [][ ( /\ last'.op = "read"
        /\ LiveSlots(inodes, last'.filename) # {}
        /\ last'.n >= LiveSize(inodes, last'.filename) )
      => (last'.res = OutOfRange /\ ImageUnchanged) ]_vars
\* C11: list, read and write change neither the free block list nor any
\* inode record, whatever their arguments.
C11_ReadOnlyOps ==
  [][ (last'.op \in {"ls", "read", "write"})
      => (fbl' = fbl /\ inodes' = inodes) ]_vars

\* C12: write(name, block_num, data) with block_num >= the size of the inode
\* the lookup selects fails and transfers no bytes to the store.
C12_WriteBound ==
  [][ ( /\ last'.op = "write"
        /\ \E i \in Slots : inodes[i].name = last'.filename
        /\ last'.n >= inodes[FirstMatch(inodes, last'.filename)].size )
      => (last'.res # OkRes /\ ImageUnchanged) ]_vars

\* C13: write(name, i, payload) with i below the size of the selected inode
\* changes only the block its pointer i names: the flags and the inode
\* records stay, every other block keeps its content, and every block held
\* at another position by a used inode reads as before.  A read on an image
\* in which nothing but zeros was ever written returns 1024 zero bytes.
C13_WriteFrame ==
  [][ /\ ( /\ last'.op = "write" /\ last'.res = OkRes
           /\ \E i \in Slots : inodes[i].name = last'.filename
           /\ last'.n < inodes[FirstMatch(inodes, last'.filename)].size )
         => LET s == FirstMatch(inodes, last'.filename)
                b == inodes[s].block_pointers[last'.n]
            IN  /\ fbl' = fbl /\ inodes' = inodes
                /\ \A x \in Flags \ {b} :
                     ReadBlock(blocks', x) = ReadBlock(blocks, x)
                /\ \A j \in {j \in Slots : inodes[j].used = 1} :
                     \A k \in {k \in PtrIdx : k < inodes[j].size} :
                       (j # s \/ k # last'.n)
                       => ReadBlock(blocks', inodes[j].block_pointers[k])
                            = ReadBlock(blocks, inodes[j].block_pointers[k])
      /\ (last'.op = "read" /\ last'.res = OkRes /\ blocks = <<>>)
         => last'.buf = Payload(0) ]_vars

\* The inode record of a file holding the n consecutive blocks from first on.
FileRecord(name, n, first, used) ==
  [name |-> name, size |-> n, used |-> used,
   block_pointers |-> [k \in PtrIdx |-> IF k < n THEN first + k ELSE 0]]

\* The flags of exactly the blocks of S and of the reserved block 0 are set.
FlagsSet(S) == fbl = [i \in Flags |-> IF i = 0 \/ i \in S THEN 1 ELSE 0]

\* The images along the scenario: after create(file1, 8); after
\* create(file2, 4); after delete(file1); after create(file3, 8).
ScenarioImage1 ==
  /\ inodes = [FormatInodes EXCEPT ![0] = FileRecord(file1, 8, 1, 1)]
  /\ FlagsSet(1 .. 8)

ScenarioImage2 ==
  /\ inodes = [FormatInodes EXCEPT ![0] = FileRecord(file1, 8, 1, 1),
                                   ![1] = FileRecord(file2, 4, 9, 1)]
  /\ FlagsSet(1 .. 12)

ScenarioImage3 ==
  /\ inodes = [FormatInodes EXCEPT ![0] = FileRecord(file1, 8, 1, 0),
                                   ![1] = FileRecord(file2, 4, 9, 1)]
  /\ FlagsSet(9 .. 12)

ScenarioImage5 ==
  /\ inodes = [FormatInodes EXCEPT ![0] = FileRecord(file3, 8, 1, 1),
                                   ![1] = FileRecord(file2, 4, 9, 1)]
  /\ FlagsSet(1 .. 12)

IsCall(c, op, name, n) == c.op = op /\ c.filename = name /\ c.n = n

\* The scenario of C14, step by step: each call, made on the image the
\* calls before it left, succeeds and leaves the next image; list yields
\* exactly file2; file3 gets slot 0 and the blocks 1..8 file1 held.
C14_Scenario ==
  [][ /\ (last.op = "new" /\ IsCall(last', "create", file1, 8))
         => (last'.res = OkRes /\ ScenarioImage1')
      /\ (ScenarioImage1 /\ IsCall(last', "create", file2, 4))
         => (last'.res = OkRes /\ ScenarioImage2')
      /\ (ScenarioImage2 /\ IsCall(last', "delete", file1, 0))
         => (last'.res = OkRes /\ ScenarioImage3')
      /\ (ScenarioImage3 /\ last'.op = "ls")
         => (last'.res = OkRes /\ last'.listing = <<file2>> /\ ScenarioImage3')
      /\ (ScenarioImage3 /\ IsCall(last', "create", file3, 8))
         => (last'.res = OkRes /\ ScenarioImage5') ]_vars

\* C14: the scenario, and in general: a successful delete_file(name) while a
\* used inode carries name leaves the slot of that file (the lowest used
\* slot carrying name) unused and every block it held flagged free, so that
\* the next create_file can take them.
C14_DeleteThenReuse ==
  [][ /\ (last.op = "new" /\ IsCall(last', "create", file1, 8))
         => (last'.res = OkRes /\ ScenarioImage1')
      /\ (ScenarioImage1 /\ IsCall(last', "create", file2, 4))
         => (last'.res = OkRes /\ ScenarioImage2')
      /\ (ScenarioImage2 /\ IsCall(last', "delete", file1, 0))
         => (last'.res = OkRes /\ ScenarioImage3')
      /\ (ScenarioImage3 /\ last'.op = "ls")
         => (last'.res = OkRes /\ last'.listing = <<file2>> /\ ScenarioImage3')
      /\ (ScenarioImage3 /\ IsCall(last', "create", file3, 8))
         => (last'.res = OkRes /\ ScenarioImage5')
      /\ ( /\ last'.op = "delete" /\ last'.res = OkRes
           /\ LiveSlots(inodes, last'.filename) # {} )
         => LET s == Min(LiveSlots(inodes, last'.filename))
            IN  /\ inodes'[s].used = 0
                /\ \A b \in Held(inodes, s) : fbl'[b] = 0 ]_vars

\* The scenario was run to its end.
C14_ScenarioWitness ==
  ScenarioImage5 /\ IsCall(last, "create", file3, 8) /\ last.res = OkRes

\* The names of the slots with used = 1, in ascending slot order.
UsedNames(ino) ==
  LET idx == SelectSeq([i \in 1 .. MAX_INODES |-> i - 1],
                       LAMBDA i : ino[i].used = 1)
  IN  [k \in 1 .. Len(idx) |-> ino[idx[k]].name]

\* C15: list() yields the names of exactly the slots with used = 1, once per
\* slot, in ascending slot order, and a second list() right after the first
\* yields the same sequence.
C15_ListUsedAscending ==
  [][ (last'.op = "ls")
      => /\ last'.res = OkRes
         /\ last'.listing = UsedNames(inodes)
         /\ (last.op = "ls" => last'.listing = last.listing) ]_vars

\* Some block index is held by two different used inodes.
SharedBlock(ino) ==
  \E i1, i2 \in {i \in Slots : ino[i].used = 1} :
    i1 # i2 /\ Held(ino, i1) \cap Held(ino, i2) # {}

\* A call that returned Ok has lost its update: the file a create_file made
\* is not there, the file a delete_file removed is still there, or a flag
\* does not say whether its block is held by a used inode.
LostUpdate ==
  \/ \E e \in Engines :
       /\ eng[e].res = OkRes /\ eng[e].op = "create"
       /\ LiveSlots(inodes, eng[e].filename) = {}
  \/ \E e \in Engines :
       /\ eng[e].res = OkRes /\ eng[e].op = "delete"
       /\ LiveSlots(inodes, eng[e].filename) # {}
  \/ \E b \in 1 .. (FREE_BLOCK_SIZE - 1) :
       (fbl[b] = 1) # (b \in Referenced(inodes))

AllDone == \A e \in Engines : eng[e].pc = "done"

\* Neither call began while the other was under way.
OneAfterTheOther == \A e \in Engines : ~eng[e].overlapped

\* C16: when the two calls are executed one after the other, no block is
\* referenced by two used inodes and no update is lost.  (That an interleaving
\* of the steps reaches such a state is C16_Interleaved.)
C16_SequentialSafe ==
  (AllDone /\ OneAfterTheOther) => ~(SharedBlock(inodes) \/ LostUpdate)

\* Two overlapping create_file calls both returned Ok and one block index is
\* referenced by two used inodes.
C16_Interleaved ==
  /\ AllDone /\ ~OneAfterTheOther
  /\ \A e \in Engines : eng[e].res = OkRes /\ eng[e].op = "create"
  /\ SharedBlock(inodes)

\* The layout C17 and C18 state: data block b at 128 + 16*R + 1024*b, the
\* image 128 + 16*R + 128*1024 bytes long (R the size of an inode record).
StatedBlockOffset(b) ==
  FREE_BLOCK_SIZE + MAX_INODES * IDXNODE_SIZE + BLOCK_SIZE * b

StatedLen ==
  FREE_BLOCK_SIZE + MAX_INODES * IDXNODE_SIZE + FREE_BLOCK_SIZE * BLOCK_SIZE

\* C17: a successful read or write of block i < size of a used file, whose
\* pointer is b, transfers the 1024 bytes at 128 + 16*R + 1024*b (the cursor
\* ends 1024 bytes after that offset); the range lies after the free block
\* list and the inode table and ends within the image length; and the ranges
\* the code addresses for two different block indices are disjoint.
C17_DataOffset ==
  [][ ( /\ last'.op \in {"read", "write"} /\ last'.res = OkRes
        /\ LiveSlots(inodes, last'.filename) # {}
        /\ FirstMatch(inodes, last'.filename)
             = Min(LiveSlots(inodes, last'.filename))
        /\ last'.n < LiveSize(inodes, last'.filename) )
      => LET b == inodes[FirstMatch(inodes, last'.filename)]
                    .block_pointers[last'.n]
         IN  /\ pos' = StatedBlockOffset(b) + BLOCK_SIZE
             /\ pos' - BLOCK_SIZE >= InodeOffset(MAX_INODES)
             /\ pos' <= StatedLen
             /\ \A b1, b2 \in Flags :
                  b1 < b2 => BlockOffset(b1) + BLOCK_SIZE <= BlockOffset(b2) ]_vars

\* C18: the image the initializer leaves is 128 + 16*R + 128*1024 bytes
\* long, byte 0 is 1 and every other byte is 0: flag 0 is set, flags 1..127
\* are clear, all 16 inodes have used = 0, and the range of every block
\* index 1..127 lies inside the image.
C18_FormatImage ==
  (last.op = "new")
  => /\ len = StatedLen
     /\ fbl[0] = 1
     /\ \A i \in 1 .. (FREE_BLOCK_SIZE - 1) : fbl[i] = 0
     /\ \A i \in Slots : inodes[i] = FillInode(0) /\ inodes[i].used = 0
     /\ blocks = <<>>
     /\ \A b \in 1 .. (FREE_BLOCK_SIZE - 1) : BlockOffset(b) + BLOCK_SIZE <= len

\* The slot a create_file call selects, the flags that are 0 before it, and
\* the block pointers it leaves in that slot.
LowestUnused == Min({i \in Slots : inodes[i].used = 0})
FreeBefore == {b \in Flags : fbl[b] = 0}
Assigned(inode, s) == {inode.block_pointers[j] : j \in 0 .. (s - 1)}

\* C19: a successful create_file(name, s) fills the lowest slot with used = 0
\* and gives it the s lowest blocks whose flag was 0, in strictly ascending
\* order in block_pointers[0..s]; exactly those flags go from 0 to 1, no
\* other flag changes, and s pointers are collected.
C19_CreateAllocation ==
  [][ (last'.op = "create" /\ last'.res = OkRes)
      => /\ \E i \in Slots : inodes[i].used = 0
         /\ \E s \in {last'.n}, inode \in {inodes'[LowestUnused]} :
              /\ inode.used = 1
              /\ inode.name = last'.filename
              /\ inode.size = s
              /\ \A j \in 0 .. (s - 2) :
                   inode.block_pointers[j] < inode.block_pointers[j + 1]
              /\ \E free \in {FreeBefore}, taken \in {Assigned(inode, s)} :
                   /\ Cardinality(taken) = s
                   /\ taken \subseteq free
                   /\ \A b \in free \ taken : \A a \in taken : a < b
                   /\ \A b \in Flags :
                        fbl'[b] = IF b \in taken THEN 1 ELSE fbl[b] ]_vars

\* A create of 8 blocks has succeeded on a fragmented free list: the blocks
\* it took are not contiguous.
C19_Witness ==
  /\ last.op = "create" /\ last.res = OkRes /\ last.n = MAX_FILE_BLOCKS
  /\ \E i \in Slots :
       /\ inodes[i].used = 1 /\ inodes[i].name = last.filename
       /\ inodes[i].size = MAX_FILE_BLOCKS
       /\ \E j \in 0 .. (MAX_FILE_BLOCKS - 2) :
            inodes[i].block_pointers[j + 1] > inodes[i].block_pointers[j] + 1

\* The slot the scan of the call just made returned: the first unused slot
\* for create_file, the first slot with the name for delete_file.
Selected ==
  IF last'.op = "create" THEN LowestUnused
  ELSE FirstMatch(inodes, last'.filename)

\* C20: a successful create_file or delete_file rewrites the record of the
\* slot its scan returned and no other: that slot carries the record the
\* call wrote, the other 15 records are as before, for every slot 0..15.
C20_WriteInodeLands ==
  [][ (last'.op \in {"create", "delete"} /\ last'.res = OkRes)
      => \E k \in {Selected} :
           /\ k \in Slots
           /\ inodes'[k].name = last'.filename
           /\ inodes'[k].used = IF last'.op = "create" THEN 1 ELSE 0
           /\ inodes' = [inodes EXCEPT ![k] = inodes'[k]] ]_vars

\* A delete has succeeded on slot 15, the last record of the table, with
\* slots 0..14 in use.
C20_Witness ==
  /\ last.op = "delete" /\ last.res = OkRes /\ last.filename = file1
  /\ inodes[MAX_INODES - 1].name = file1 /\ inodes[MAX_INODES - 1].used = 0
  /\ \A i \in 0 .. (MAX_INODES - 2) :
       inodes[i].used = 1 /\ inodes[i].name = file2

\* The slot the engine's cursor stands behind, and the blocks of the record
\* the engine holds in memory.
CursorSlot(e) == (eng[e].pos - IDXNODE_SIZE - FREE_BLOCK_SIZE) \div IDXNODE_SIZE
HeldBy(e) ==
  {eng[e].inode.block_pointers[k] : k \in {k \in PtrIdx : k < eng[e].inode.size}}

\* The order of the stores of a call: the image changes only in the two
\* store steps, which are reached only when every check has passed and end
\* in Ok; the inode record is stored first and leaves the free block list
\* alone, the free block list second and leaves the inodes alone.
C21_WriteOrder ==
  [][ /\ (fbl' # fbl \/ inodes' # inodes)
           => eng[1].pc \in {"write_inode", "write_free_block_list"}
      /\ (eng[1].pc = "write_inode")
           => (fbl' = fbl /\ eng'[1].pc = "write_free_block_list")
      /\ (eng[1].pc = "write_free_block_list")
           => (inodes' = inodes /\ eng'[1].pc = "done" /\ eng'[1].res = OkRes)
      /\ (eng'[1].pc = "done" /\ eng'[1].res # OkRes)
           => (fbl' = fbl /\ inodes' = inodes
               /\ eng[1].pc \notin {"write_inode", "write_free_block_list"})
    ]_vars

\* C21: between the two stores of a call the image holds the record of the
\* call and the free block list of before: after create_file a used inode
\* whose blocks are all flagged free, after delete_file an unused inode
\* whose blocks are all flagged allocated.
C21_InterruptedImage ==
  (eng[1].pc = "write_free_block_list")
  => /\ CursorSlot(1) \in Slots
     /\ inodes[CursorSlot(1)] = eng[1].inode
     /\ eng[1].op = "create"
          => (eng[1].inode.used = 1 /\ \A b \in HeldBy(1) : fbl[b] = 0)
     /\ eng[1].op = "delete"
          => (eng[1].inode.used = 0 /\ \A b \in HeldBy(1) : fbl[b] = 1)

\* The create half of C21 alone.
C21_InterruptedCreate ==
  (eng[1].pc = "write_free_block_list" /\ eng[1].op = "create")
  => /\ CursorSlot(1) \in Slots
     /\ inodes[CursorSlot(1)] = eng[1].inode
     /\ eng[1].inode.used = 1 /\ \A b \in HeldBy(1) : fbl[b] = 0

\* C22: in every state reached from the fresh image the flag of block 0 is 1
\* and index 0 is not among block_pointers[0..size] of a used inode.
C22_BlockZeroReserved ==
  /\ fbl[0] = 1
  /\ 0 \notin Referenced(inodes)

\* Block 0 has been handed out: its flag was cleared by a delete, and a
\* create has then put index 0 into the pointers of a new file.
C22_BlockZeroAssigned ==
  /\ last.op = "create" /\ last.res = OkRes /\ last.n = 1
  /\ \E i \in Slots :
       /\ inodes[i].used = 1 /\ inodes[i].name = file2
       /\ inodes[i].block_pointers[0] = 0

\* The 1024 bytes of the region of pointer b, as read returns them.
BlockContent(ino, blk, b) ==
  IF b = 0 THEN TableBuf(ino, ReadBlock(blk, 0)) ELSE Payload(ReadBlock(blk, b))

\* C23: create_file and delete_file leave the contents of every data block
\* as they were: of the blocks 1..127, and of every block a used inode
\* holds before or after the call.
C23_DataBlocksKept ==
  [][ (last'.op \in {"create", "delete"})
      => \A b \in (Flags \ {0}) \cup Referenced(inodes) \cup Referenced(inodes') :
           BlockContent(inodes', blocks', b) = BlockContent(inodes, blocks, b)
    ]_vars

\* The blocks 1..127 alone.
C23_BlocksFromOneKept ==
  [][ (last'.op \in {"create", "delete"})
      => \A b \in Flags \ {0} :
           BlockContent(inodes', blocks', b) = BlockContent(inodes, blocks, b)
    ]_vars

\* A file created after the delete of another one has been given its block,
\* and a read of it returned the bytes the deleted file had written there.
C23_StaleData ==
  /\ last.op = "read" /\ last.res = OkRes /\ last.filename = file2
  /\ last.buf = Payload(RecordFill)
  /\ \A i \in Slots : inodes[i].name # file1
  /\ \E i \in Slots :
       /\ inodes[i].used = 1 /\ inodes[i].name = file2 /\ inodes[i].size = 1
       /\ inodes[i].block_pointers[0] = 1
====
